---------------------------- MODULE Spec2Model ----------------------------
(***************************************************************************)
(* jax/_src/scipy/ndimage.py: map_coordinates.                             *)
(*                                                                         *)
(* Index arrays are int32 (ndimage.py:57, :66), so index arithmetic wraps  *)
(* modulo 2^32.  Floating-point quantities (coordinates, weights, sums)    *)
(* are modelled as exact rationals [n, d]: rounding error and non-finite   *)
(* values (inf, NaN) are outside the model.                                *)
(* One output position is modelled: every stage of the code is elementwise *)
(* over the broadcast coordinate shape.                                    *)
(***************************************************************************)
EXTENDS Integers, Sequences, FiniteSets, TLC

VARIABLES
    rem_by_zero,              \* what the build's integer x rem 0 yields
    f_pc, f_mode, f_index, f_size, f_fixed,      \* one index-fixer call
    pc, input, coordinates, order, mode, cval,   \* one _map_coordinates call
    index_fixer, interp_fun, axis, interp_nodes,
    valid_1d_interpolations, outputs, result, raised

fvars == <<f_pc, f_mode, f_index, f_size, f_fixed>>
mvars == <<pc, input, coordinates, order, mode, cval, index_fixer, interp_fun,
           axis, interp_nodes, valid_1d_interpolations, outputs, result, raised>>
vars == <<rem_by_zero, fvars, mvars>>

(***************************************************************************)
(* Bounds of the model.                                                    *)
(***************************************************************************)
MaxSize == 2      \* axis sizes 1..MaxSize in a _map_coordinates call
Den == 2          \* coordinates are multiples of 1/Den
MaxOrder == 2     \* orders 0..MaxOrder are tried (0 and 1 are supported)
MaxFixSize == 4   \* axis sizes 1..MaxFixSize in an index-fixer call
MaxIdx == 10      \* raw indices -MaxIdx..MaxIdx, and as many around each
                  \* int32 landmark, in an index-fixer call

(***************************************************************************)
(* int32 arithmetic.                                                       *)
(***************************************************************************)
MaxInt32 == 2147483647
MinInt32 == -MaxInt32 - 1
HalfInt32 == 1073741824     \* 2^30: from here 2*index+1 leaves int32

\* a + b modulo 2^32, computed without leaving the int32 range
add32(a, b) ==
    IF b > 0 /\ a > MaxInt32 - b
      THEN (a - MaxInt32 - 1) + (b - MaxInt32 - 1)
      ELSE IF b < 0 /\ a < MinInt32 - b
             THEN (a + MaxInt32 + 1) + (b + MaxInt32 + 1)
             ELSE a + b

\* a - b for a small non-negative b
sub32(a, b) == add32(a, -b)

\* 2 * a modulo 2^32
dbl32(a) == add32(a, a)

\* lax.rem: the remainder takes the sign of the dividend; x rem 0 is
\* implementation-defined in XLA
lax_rem(x, y) ==
    IF y = 0
      THEN (IF rem_by_zero = "dividend" THEN x ELSE 0)
      ELSE LET r == x % y
           IN  IF x >= 0 \/ r = 0 THEN r ELSE r - y

\* jnp.remainder (the % operator of an array): the sign of the divisor
jnp_remainder(x1, x2) ==
    LET trunc_mod == lax_rem(x1, x2)
        do_plus == ((trunc_mod < 0) # (x2 < 0)) /\ trunc_mod # 0
    IN  IF do_plus THEN add32(trunc_mod, x2) ELSE trunc_mod

\* jnp.abs on int32: abs(MinInt32) wraps to MinInt32
jnp_abs(x) == IF x = MinInt32 THEN MinInt32 ELSE IF x < 0 THEN -x ELSE x

\* jnp.clip
jnp_clip(x, lo, hi) == IF x < lo THEN lo ELSE IF x > hi THEN hi ELSE x

\* jnp.floor_divide by a positive divisor
jnp_floor_divide(x, y) == x \div y

(***************************************************************************)
(* The boundary index fixers.                                              *)
(***************************************************************************)
_mirror_index_fixer(index, size) ==
    LET s == size - 1
    IN  jnp_abs(sub32(jnp_remainder(add32(index, s), 2 * s), s))

_reflect_index_fixer(index, size) ==
    jnp_floor_divide(
        sub32(_mirror_index_fixer(add32(dbl32(index), 1), 2 * size + 1), 1), 2)

Modes == {"constant", "nearest", "wrap", "mirror", "reflect"}

_INDEX_FIXERS(m, index, size) ==
    CASE m = "constant" -> index
      [] m = "nearest"  -> jnp_clip(index, 0, size - 1)
      [] m = "wrap"     -> jnp_remainder(index, size)
      [] m = "mirror"   -> _mirror_index_fixer(index, size)
      [] m = "reflect"  -> _reflect_index_fixer(index, size)

(***************************************************************************)
(* Floating point, as exact rationals [n |-> numerator, d |-> denominator] *)
(* in lowest terms.                                                        *)
(***************************************************************************)
RECURSIVE GCD(_, _)
GCD(a, b) == IF b = 0 THEN a ELSE GCD(b, a % b)

Abs(x) == IF x < 0 THEN -x ELSE x

Rat(n, d) ==
    LET g == GCD(Abs(n), d)
    IN  [n |-> n \div g, d |-> d \div g]

FromInt(k) == [n |-> k, d |-> 1]
RAdd(a, b) == Rat(a.n * b.d + b.n * a.d, a.d * b.d)
RSub(a, b) == Rat(a.n * b.d - b.n * a.d, a.d * b.d)
RMul(a, b) == Rat(a.n * b.n, a.d * b.d)

\* a conversion that truncates toward zero where the code takes the floor
jnp_floor_truncating(a) == IF a.n >= 0 THEN a.n \div a.d ELSE -((-a.n) \div a.d)

\* jnp.floor
jnp_floor(a) == a.n \div a.d

\* float -> integer conversion truncates toward zero
astype_int(a) == IF a.n >= 0 THEN a.n \div a.d ELSE -((-a.n) \div a.d)

\* lax.round, whose default rounding method is AWAY_FROM_ZERO
lax_round(a) ==
    IF a.n >= 0 THEN (2 * a.n + a.d) \div (2 * a.d)
                ELSE -((2 * (-a.n) + a.d) \div (2 * a.d))

(***************************************************************************)
(* Interpolation nodes.  The traced value is a float array here, so         *)
(* _round_half_away_from_zero takes its lax.round branch.                  *)
(***************************************************************************)
\* rounding with the tie going to the even neighbour (jnp.round)
_round_half_to_even(a) ==
    LET fl == a.n \div a.d
        twice == 2 * (a.n - fl * a.d)
    IN  IF twice < a.d THEN fl
        ELSE IF twice > a.d THEN fl + 1
        ELSE IF fl % 2 = 0 THEN fl ELSE fl + 1

_round_half_away_from_zero(a) == lax_round(a)

_nearest_indices_and_weights(coordinate) ==
    << [index  |-> _round_half_away_from_zero(coordinate),
        weight |-> FromInt(1)] >>

\* the two weights exchanged
_linear_indices_and_weights_swapped(coordinate) ==
    LET lower == jnp_floor(coordinate)
        upper_weight == RSub(coordinate, FromInt(lower))
        lower_weight == RSub(FromInt(1), upper_weight)
        index == lower
    IN  << [index |-> index, weight |-> upper_weight],
           [index |-> add32(index, 1), weight |-> lower_weight] >>

_linear_indices_and_weights(coordinate) ==
    LET lower == jnp_floor(coordinate)
        upper_weight == RSub(coordinate, FromInt(lower))
        lower_weight == RSub(FromInt(1), upper_weight)
        index == lower
    IN  << [index |-> index, weight |-> lower_weight],
           [index |-> add32(index, 1), weight |-> upper_weight] >>

interp(fun, coordinate) ==
    IF fun = "nearest" THEN _nearest_indices_and_weights(coordinate)
                       ELSE _linear_indices_and_weights(coordinate)

\* the upper bound of the range test off by one
is_valid_inclusive(m, index, size) ==
    IF m = "constant"
      THEN (IF (index >= 0) /\ (index <= size) THEN "array_true" ELSE "array_false")
      ELSE "True"

\* the range test made in every mode
is_valid_every_mode(m, index, size) ==
    IF (index >= 0) /\ (index < size) THEN "array_true" ELSE "array_false"

\* Python's True outside constant mode; in constant mode an element of a
\* boolean array, written "array_true" or "array_false"
is_valid(m, index, size) ==
    IF m = "constant"
      THEN (IF (index >= 0) /\ (index < size) THEN "array_true" ELSE "array_false")
      ELSE "True"

\* the body of the loop over the axes: one axis's [fixed index, valid, weight]
valid_interp_of(m, fun, coordinate, size) ==
    LET interp_nodes_ == interp(fun, coordinate)
    IN  [k \in 1..Len(interp_nodes_) |->
            [fixed_index |-> _INDEX_FIXERS(m, interp_nodes_[k].index, size),
             valid       |-> is_valid(m, interp_nodes_[k].index, size),
             weight      |-> interp_nodes_[k].weight]]

(***************************************************************************)
(* The combiner.                                                           *)
(***************************************************************************)
\* itertools.product: the last list varies fastest
RECURSIVE product(_)
product(lists) ==
    IF lists = <<>> THEN << <<>> >>
    ELSE LET head == Head(lists)
             rest == product(Tail(lists))
         IN  [i \in 1..(Len(head) * Len(rest)) |->
                <<head[((i - 1) \div Len(rest)) + 1]>>
                    \o rest[((i - 1) % Len(rest)) + 1]]

\* input[indices]: a negative index counts from the end, and the gather
\* clamps what is still out of range
gather(inp, indices) ==
    inp.data[[k \in 1..Len(indices) |->
                LET size == inp.shape[k]
                    i == IF indices[k] < 0 THEN add32(indices[k], size)
                                           ELSE indices[k]
                IN  jnp_clip(i, 0, size - 1)]]

RECURSIVE _nonempty_prod(_)
_nonempty_prod(ws) ==
    IF Len(ws) = 1 THEN ws[1]
    ELSE RMul(_nonempty_prod(SubSeq(ws, 1, Len(ws) - 1)), ws[Len(ws)])

RECURSIVE _nonempty_sum(_)
_nonempty_sum(xs) ==
    IF Len(xs) = 1 THEN xs[1]
    ELSE RAdd(_nonempty_sum(SubSeq(xs, 1, Len(xs) - 1)), xs[Len(xs)])

\* one pass of the loop over the node combinations
contribution_of(inp, cv, items) ==
    LET indices    == [k \in 1..Len(items) |-> items[k].fixed_index]
        validities == [k \in 1..Len(items) |-> items[k].valid]
        weights    == [k \in 1..Len(items) |-> items[k].weight]
        all_valid  == \A k \in 1..Len(items) : validities[k] # "array_false"
        contribution ==
            IF \A k \in 1..Len(items) : validities[k] = "True"
              THEN FromInt(gather(inp, indices))
              ELSE IF all_valid THEN FromInt(gather(inp, indices)) ELSE cv
    IN  [indices |-> indices,
         term    |-> RMul(_nonempty_prod(weights), contribution)]

outputs_of(inp, cv, v1d) ==
    LET combos == product(v1d)
    IN  [i \in 1..Len(combos) |-> contribution_of(inp, cv, combos[i])]

\* the sum, rounded for an integer input, cast to the input's dtype
result_of(inp, outs) ==
    LET total == _nonempty_sum([i \in 1..Len(outs) |-> outs[i].term])
    IN  IF inp.dtype = "int32"
          THEN FromInt(astype_int(FromInt(_round_half_away_from_zero(total))))
          ELSE total

\* jnp.asarray(cval, input.dtype)
asarray_cval(cv, dtype) == IF dtype = "int32" THEN FromInt(astype_int(cv)) ELSE cv

(***************************************************************************)
(* Inputs.                                                                 *)
(***************************************************************************)
Sizes == 1..MaxSize
Shapes == {<<n>> : n \in Sizes} \cup {<<n, m>> : n, m \in Sizes}

IndexTuples(shape) ==
    {ix \in [1..Len(shape) -> 0..(MaxSize - 1)] :
        \A k \in 1..Len(shape) : ix[k] < shape[k]}

\* row-major position of a multi-index
RECURSIVE Linear(_, _)
Linear(shape, ix) ==
    IF Len(shape) = 0 THEN 0
    ELSE Linear(SubSeq(shape, 1, Len(shape) - 1), SubSeq(ix, 1, Len(ix) - 1))
             * shape[Len(shape)] + ix[Len(ix)]

\* arrays of distinct values: sign * 1, 4, 9, ... in row-major order
Array(shape, dtype, sign) ==
    [shape |-> shape, dtype |-> dtype,
     data  |-> [ix \in IndexTuples(shape) |->
                   sign * (Linear(shape, ix) + 1) * (Linear(shape, ix) + 1)]]

Inputs == {Array(sh, dt, sg) : sh \in Shapes, dt \in {"float32", "int32"},
                               sg \in {1, -1}}

\* one unit outside the largest axis on both sides, in steps of 1/Den
Coords == {Rat(k, Den) : k \in (-Den)..(MaxSize * Den)}
CoordLists == {<<c>> : c \in Coords} \cup {<<c1, c2>> : c1, c2 \in Coords}

CVals == {FromInt(0), Rat(5, 2)}
AllModes == Modes \cup {"grid-wrap"}
Orders == 0..MaxOrder

FixSizes == 1..MaxFixSize
FixIndices ==
    ((-MaxIdx)..MaxIdx)
      \cup ((HalfInt32 - MaxIdx)..(HalfInt32 + MaxIdx))
      \cup ((-HalfInt32 - MaxIdx)..(-HalfInt32 + MaxIdx))
      \cup {MaxInt32 - k : k \in 0..MaxIdx}
      \cup {MinInt32 + k : k \in 0..MaxIdx}

RemByZero == {"dividend", "zero"}

(***************************************************************************)
(* A call of one index fixer.                                              *)
(***************************************************************************)
MapIdle ==
    /\ pc = "idle" /\ input = "None" /\ coordinates = <<>> /\ order = 0
    /\ mode = "None" /\ cval = FromInt(0) /\ index_fixer = "None"
    /\ interp_fun = "None" /\ axis = 0 /\ interp_nodes = <<>>
    /\ valid_1d_interpolations = <<>> /\ outputs = <<>>
    /\ result = "None" /\ raised = "None"

FixIdle ==
    /\ f_pc = "idle" /\ f_mode = "None" /\ f_index = 0 /\ f_size = 1
    /\ f_fixed = "None"

InitFixers ==
    /\ rem_by_zero \in RemByZero
    /\ f_pc = "call"
    /\ f_mode \in Modes
    /\ f_index \in FixIndices
    /\ f_size \in FixSizes
    /\ f_fixed = "None"
    /\ MapIdle

FixIndex ==
    /\ f_pc = "call"
    /\ f_fixed' = _INDEX_FIXERS(f_mode, f_index, f_size)
    /\ f_pc' = "returned"
    /\ UNCHANGED <<rem_by_zero, f_mode, f_index, f_size, mvars>>

NextFixers == FixIndex

SpecFixers == InitFixers /\ [][NextFixers]_vars

(***************************************************************************)
(* A call of _map_coordinates.                                             *)
(***************************************************************************)
Init ==
    /\ rem_by_zero \in RemByZero
    /\ FixIdle
    /\ pc = "call"
    /\ input \in Inputs
    /\ coordinates \in CoordLists
    /\ order \in Orders
    /\ mode \in AllModes
    /\ cval \in CVals
    /\ index_fixer = "None" /\ interp_fun = "None" /\ axis = 0
    /\ interp_nodes = <<>> /\ valid_1d_interpolations = <<>>
    /\ outputs = <<>> /\ result = "None" /\ raised = "None"

\* lines 72-78: the conversions and the check of the number of coordinates
CheckCoordinates ==
    /\ pc = "call"
    /\ cval' = asarray_cval(cval, input.dtype)
    /\ IF Len(coordinates) # Len(input.shape)
         THEN pc' = "raised" /\ raised' = "ValueError"
         ELSE pc' = "mode" /\ UNCHANGED raised
    /\ UNCHANGED <<rem_by_zero, fvars, input, coordinates, order, mode,
                   index_fixer, interp_fun, axis, interp_nodes,
                   valid_1d_interpolations, outputs, result>>

\* lines 80-89: the fixer of the mode (is_valid is decided by the mode too)
LookupFixer ==
    /\ pc = "mode"
    /\ IF mode \notin Modes
         THEN pc' = "raised" /\ raised' = "NotImplementedError"
              /\ UNCHANGED index_fixer
         ELSE pc' = "order" /\ index_fixer' = mode /\ UNCHANGED raised
    /\ UNCHANGED <<rem_by_zero, fvars, input, coordinates, order, mode, cval,
                   interp_fun, axis, interp_nodes,
                   valid_1d_interpolations, outputs, result>>

\* every order other than 0 taken as linear
SelectInterp_else_linear ==
    /\ pc = "order"
    /\ pc' = "loop" /\ axis' = 1
    /\ interp_fun' = IF order = 0 THEN "nearest" ELSE "linear"
    /\ UNCHANGED <<rem_by_zero, fvars, input, coordinates, order, mode, cval,
                   index_fixer, interp_nodes, raised,
                   valid_1d_interpolations, outputs, result>>

\* lines 91-97: the node generator of the order
SelectInterp ==
    /\ pc = "order"
    /\ IF order = 0
         THEN pc' = "loop" /\ interp_fun' = "nearest" /\ axis' = 1
              /\ UNCHANGED raised
         ELSE IF order = 1
           THEN pc' = "loop" /\ interp_fun' = "linear" /\ axis' = 1
                /\ UNCHANGED raised
           ELSE pc' = "raised" /\ raised' = "NotImplementedError"
                /\ UNCHANGED <<interp_fun, axis>>
    /\ UNCHANGED <<rem_by_zero, fvars, input, coordinates, order, mode, cval,
                   index_fixer, interp_nodes,
                   valid_1d_interpolations, outputs, result>>

\* lines 100-107: one pass of the loop over (coordinate, size)
LoopAxis ==
    /\ pc = "loop"
    /\ axis <= Len(coordinates)
    /\ interp_nodes' = interp(interp_fun, coordinates[axis])
    /\ valid_1d_interpolations' =
          Append(valid_1d_interpolations,
                 valid_interp_of(index_fixer, interp_fun, coordinates[axis],
                                 input.shape[axis]))
    /\ axis' = axis + 1
    /\ pc' = IF axis = Len(coordinates) THEN "product" ELSE "loop"
    /\ UNCHANGED <<rem_by_zero, fvars, input, coordinates, order, mode, cval,
                   index_fixer, interp_fun, outputs, result, raised>>

\* lines 109-118: the loop over the node combinations
Combine ==
    /\ pc = "product"
    /\ outputs' = outputs_of(input, cval, valid_1d_interpolations)
    /\ pc' = "sum"
    /\ UNCHANGED <<rem_by_zero, fvars, input, coordinates, order, mode, cval,
                   index_fixer, interp_fun, axis, interp_nodes,
                   valid_1d_interpolations, result, raised>>

\* lines 119-122
Return ==
    /\ pc = "sum"
    /\ result' = result_of(input, outputs)
    /\ pc' = "returned"
    /\ UNCHANGED <<rem_by_zero, fvars, input, coordinates, order, mode, cval,
                   index_fixer, interp_fun, axis, interp_nodes,
                   valid_1d_interpolations, outputs, raised>>

Next ==
    \/ CheckCoordinates
    \/ LookupFixer
    \/ SelectInterp
    \/ LoopAxis
    \/ Combine
    \/ Return

Spec == Init /\ [][Next]_vars

\* the whole call as a function of its arguments, for a supported
\* configuration (lines 99-122)
_map_coordinates(inp, coords, ord, m, cv) ==
    LET fun == IF ord = 0 THEN "nearest" ELSE "linear"
        v1d == [k \in 1..Len(coords) |->
                   valid_interp_of(m, fun, coords[k], inp.shape[k])]
    IN  result_of(inp, outputs_of(inp, asarray_cval(cv, inp.dtype), v1d))

(***************************************************************************)
(* Properties of the index fixers (SpecFixers).                            *)
(***************************************************************************)

\* C1: for every mode other than constant, every axis size >= 1 and every
\* raw index, the index fixer returns a value in [0, axis_size - 1].
C1_FixerInRange ==
    (f_pc = "returned" /\ f_mode # "constant")
        => (f_fixed >= 0 /\ f_fixed <= f_size - 1)

\* the half-sample-symmetric extension: with r = i mod 2n, r if r < n and
\* 2n-1-r otherwise
HalfSampleSymmetric(i, n) ==
    LET r == i % (2 * n) IN IF r < n THEN r ELSE 2 * n - 1 - r

\* C2: for every axis size n >= 1 and every index i, the reflect fixer
\* returns the half-sample-symmetric extension of i.
C2_ReflectIsHalfSampleSymmetric ==
    (f_pc = "returned" /\ f_mode = "reflect")
        => f_fixed = HalfSampleSymmetric(f_index, f_size)

\* C3: reflect(i + 2n, n) = reflect(i, n) and
\* mirror(i + 2(n-1), n) = mirror(i, n), for every index i whose shifted
\* index is an index too.
C3_FixersPeriodic ==
    f_pc = "returned" =>
        /\ (f_mode = "reflect" /\ f_index <= MaxInt32 - 2 * f_size)
              => _reflect_index_fixer(f_index + 2 * f_size, f_size) = f_fixed
        /\ (f_mode = "mirror" /\ f_index <= MaxInt32 - 2 * (f_size - 1))
              => _mirror_index_fixer(f_index + 2 * (f_size - 1), f_size)
                    = f_fixed

\* What the three properties above keep of the code (SpecFixers): the range
\* but for mirror on an axis of size 1, and the reflect formula and both
\* periods where no int32 sum wraps.
FixerInRange_MirrorSize2 ==
    (f_pc = "returned" /\ f_mode # "constant"
        /\ ~(f_mode = "mirror" /\ f_size = 1))
        => (f_fixed >= 0 /\ f_fixed <= f_size - 1)

Reflect_NoWrap ==
    (f_pc = "returned" /\ f_mode = "reflect"
        /\ f_index >= -HalfInt32 /\ f_index < HalfInt32 - f_size)
        => f_fixed = HalfSampleSymmetric(f_index, f_size)

Periodic_NoWrap ==
    f_pc = "returned" =>
        /\ (f_mode = "reflect" /\ f_index >= -HalfInt32
                /\ f_index < HalfInt32 - 3 * f_size)
              => _reflect_index_fixer(f_index + 2 * f_size, f_size) = f_fixed
        /\ (f_mode = "mirror" /\ f_index <= MaxInt32 - 3 * (f_size - 1))
              => _mirror_index_fixer(f_index + 2 * (f_size - 1), f_size)
                    = f_fixed

(***************************************************************************)
(* Properties of a call (Spec).                                            *)
(***************************************************************************)
IsInteger(c) == c.d = 1
InBounds(k) == IsInteger(coordinates[k]) /\ coordinates[k].n >= 0
                   /\ coordinates[k].n < input.shape[k]
Axes == 1..Len(coordinates)

C5_ConstantOneOutsideIsCval ==
    (/\ pc = "returned" /\ mode = "constant" /\ order = 0
     /\ \E k \in Axes : \/ coordinates[k] = FromInt(-1)
                        \/ coordinates[k] = FromInt(input.shape[k]))
        => result = cval

C5_Witness ==
    /\ pc = "returned" /\ mode = "constant" /\ order = 0
    /\ Len(coordinates) = 2
    /\ coordinates[1] = FromInt(input.shape[1])
    /\ InBounds(2)
    /\ cval.n # 0
    /\ result = cval

ConfigurationError ==
    \/ Len(coordinates) # Len(input.shape)
    \/ mode \notin Modes
    \/ order \notin {0, 1}

\* C6: a call with a wrong number of coordinates, an unknown mode or an
\* unsupported order ends in an error and never in a result, and when a call
\* has ended in an error no node was generated, no index fixed, nothing
\* gathered and no output produced.
C6_ErrorsBeforeWork ==
    /\ pc = "raised" =>
          /\ ConfigurationError
          /\ raised \in {"ValueError", "NotImplementedError"}
          /\ interp_nodes = <<>>
          /\ valid_1d_interpolations = <<>>
          /\ outputs = <<>>
          /\ result = "None"
    /\ ConfigurationError =>
          /\ pc \in {"call", "mode", "order", "raised"}
          /\ valid_1d_interpolations = <<>>
          /\ outputs = <<>>
          /\ result = "None"

\* an unsupported order with a supported mode and the right number of
\* coordinates: the last of the three checks raises
C6_Witness ==
    /\ pc = "raised" /\ raised = "NotImplementedError"
    /\ order \notin {0, 1} /\ mode \in Modes
    /\ Len(coordinates) = Len(input.shape)

WeightedSum == _nonempty_sum([i \in 1..Len(outputs) |-> outputs[i].term])

\* C7: for an int32 input the result is the integer nearest to the weighted
\* sum, the tie going away from zero.
C7_IntegerRoundsHalfAway ==
    (pc = "returned" /\ input.dtype = "int32")
        => /\ result.d = 1
           /\ result.n * WeightedSum.n >= 0
           /\ 2 * Abs(result.n) * WeightedSum.d
                 <= 2 * Abs(WeightedSum.n) + WeightedSum.d
           /\ 2 * Abs(WeightedSum.n) + WeightedSum.d
                 < 2 * (Abs(result.n) + 1) * WeightedSum.d

\* a negative tie whose neighbours are -2 and -3: truncation and
\* round-half-to-even both give -2
C7_Witness ==
    /\ pc = "returned" /\ input.dtype = "int32"
    /\ WeightedSum = Rat(-5, 2)
    /\ result = FromInt(-3)

\* C8: for order 1 the node generator returns two nodes, the lower first,
\* with indices floor(c) and floor(c)+1 and weights 1-frac and frac, which
\* sum to 1.
C8_LinearNodes ==
    (interp_fun = "linear" /\ axis > 1) =>
        LET c == coordinates[axis - 1]
            lo == interp_nodes[1]
            up == interp_nodes[2]
        IN  /\ Len(interp_nodes) = 2
            /\ lo.index * c.d <= c.n /\ c.n < (lo.index + 1) * c.d
            /\ up.index = lo.index + 1
            /\ up.weight.n * c.d = (c.n - lo.index * c.d) * up.weight.d
            /\ lo.weight.n * up.weight.d + up.weight.n * lo.weight.d
                  = lo.weight.d * up.weight.d
            /\ lo.weight.d > 0 /\ up.weight.d > 0

\* a negative coordinate that is no integer
C8_Witness ==
    /\ interp_fun = "linear" /\ axis > 1
    /\ coordinates[axis - 1].n < 0
    /\ coordinates[axis - 1].d > 1
    /\ interp_nodes[1].index = -1
    /\ interp_nodes[2].weight.n > 0

\* C9: outside constant mode, the call with any other cval returns the
\* same result.
C9_CvalOnlyInConstantMode ==
    (pc = "returned" /\ mode # "constant")
        => \A cv \in CVals :
              _map_coordinates(input, coordinates, order, mode, cv) = result

\* a node outside the array, where constant mode would have used cval
C9_Witness ==
    /\ pc = "returned" /\ mode = "nearest" /\ order = 1
    /\ cval.n # 0
    /\ \E k \in Axes : coordinates[k].n < 0

\* C10: in every mode, constant included, every per-axis index passed to
\* the gather lies in [0, axis_size - 1].
C10_GatherIndexInRange ==
    pc \in {"sum", "returned"} =>
        \A i \in 1..Len(outputs) : \A k \in 1..Len(input.shape) :
            /\ outputs[i].indices[k] >= 0
            /\ outputs[i].indices[k] <= input.shape[k] - 1

\* What C10 keeps of the code (Spec): the modes whose fixer brings every
\* index into range.
GatherIndexInRange_Fixed ==
    (pc \in {"sum", "returned"} /\ mode \in {"nearest", "wrap", "reflect"}) =>
        \A i \in 1..Len(outputs) : \A k \in 1..Len(input.shape) :
            /\ outputs[i].indices[k] >= 0
            /\ outputs[i].indices[k] <= input.shape[k] - 1

=============================================================================
